---- MODULE Spec2Model ----
(***************************************************************************)
(* Teacher Dashboard server: the token gate, the role gate and the         *)
(* students / analytics handlers, running as interleaved async handlers    *)
(* over one shared SQLite connection.                                      *)
(*                                                                         *)
(* A handler step is one awaited storage statement together with the       *)
(* synchronous code that follows it up to the next await.  Statements of   *)
(* different requests interleave on the single connection; the connection  *)
(* has one transaction state shared by every request.                      *)
(***************************************************************************)
EXTENDS Integers, Sequences, FiniteSets, TLC

(* ---------------------------------------------------------------- bounds *)

\* Number of HTTP requests the model lets arrive.
MaxRequests == 2

\* Number of statements the environment may fail with "database is locked"
\* (another process holding the file lock) in a run with lock contention.
MaxFaults == 1

Requests == 1..MaxRequests

(* ------------------------------------------------------------ data model *)

Undefined == [kind |-> "undefined"]

\* src/src/types/enums (Roles), as used by the routes
Roles == {"Admin", "Teacher", "Student"}

\* insertSampleData: the six seeded rows; ids and created_at are assigned by
\* storage (AUTOINCREMENT from 1, CURRENT_TIMESTAMP of the first run = tick 0).
sampleStudents ==
  { [id |-> 1, name |-> "John Doe",       email |-> "john.doe@example.com",
     subject |-> "Math",    grade |-> 85, created_at |-> 0],
    [id |-> 2, name |-> "Jane Smith",     email |-> "jane.smith@example.com",
     subject |-> "Science", grade |-> 92, created_at |-> 0],
    [id |-> 3, name |-> "Bob Johnson",    email |-> "bob.johnson@example.com",
     subject |-> "English", grade |-> 78, created_at |-> 0],
    [id |-> 4, name |-> "Alice Brown",    email |-> "alice.brown@example.com",
     subject |-> "History", grade |-> 88, created_at |-> 0],
    [id |-> 5, name |-> "Charlie Wilson", email |-> "charlie.wilson@example.com",
     subject |-> "Math",    grade |-> 95, created_at |-> 0],
    [id |-> 6, name |-> "Diana Davis",    email |-> "diana.davis@example.com",
     subject |-> "Science", grade |-> 89, created_at |-> 0] }

\* A lower-casing that does nothing: what the service would compute if its
\* e-mail handling preserved case.
caseKept(s) == s

\* ASCII lower-casing on the e-mail strings the model uses: every string with
\* an upper-case letter is listed with its lower-case form, every other
\* string is already lower case.
AsciiLower(s) ==
  CASE s = "Eve.Adams@Example.com"  -> "eve.adams@example.com"
    [] s = "EVE.ADAMS@EXAMPLE.COM"  -> "eve.adams@example.com"
    [] s = "JANE.SMITH@example.com" -> "jane.smith@example.com"
    [] s = "John.Doe@Example.com"   -> "john.doe@example.com"
    [] OTHER -> s

\* String.prototype.toLowerCase as the handlers call it
toLowerCase(s) == AsciiLower(s)

\* SQL LOWER() in the duplicate look-ups
LOWER(s) == AsciiLower(s)

\* express-validator normalizeEmail() with its defaults (all_lowercase)
normalizeEmail(s) == AsciiLower(s)

(* ---------------------------------------------------------------- tokens *)

JWT_SECRET == "teacher-dashboard-secret-key-2024"

NoToken == [kind |-> "none"]

\* A signed token: the payload, the key it was signed with, and whether its
\* 24h expiry has passed.
Jwt(role, uid, key, expired) ==
  [kind |-> "jwt", payload |-> [username |-> "teacher", role |-> role, id |-> uid],
   key |-> key, expired |-> expired]

TeacherToken  == Jwt("Teacher", 1, JWT_SECRET, FALSE)
AdminToken    == Jwt("Admin",   1, JWT_SECRET, FALSE)
StudentToken  == Jwt("Student", 1, JWT_SECRET, FALSE)
ExpiredToken  == Jwt("Teacher", 1, JWT_SECRET, TRUE)
TamperedToken == Jwt("Admin",   1, "some-other-key", FALSE)
MalformedToken == [kind |-> "garbage"]

\* jwt.verify(token, JWT_SECRET): err for a string that is no JWT, for a
\* signature made with another key, and for an expired token.
jwtVerify(token, secret) ==
  IF token.kind = "jwt" /\ token.key = secret /\ ~token.expired
  THEN [err |-> FALSE, decoded |-> token.payload]
  ELSE [err |-> TRUE,  decoded |-> Undefined]

(* ----------------------------------------------------------- HTTP input *)

\* The Authorization header: absent, or a scheme word followed by the words
\* that split(' ') yields after it.
NoHeader    == [present |-> FALSE, words |-> <<>>]
Bearer(tok) == [present |-> TRUE,  words |-> <<tok>>]
BearerOnly  == [present |-> TRUE,  words |-> <<>>]

\* authHeader && authHeader.split(' ')[1]
headerToken(authHeader) ==
  IF authHeader.present /\ Len(authHeader.words) >= 1
  THEN authHeader.words[1]
  ELSE Undefined

\* req.cookies as the middleware stack of index.ts leaves it: no cookie
\* parsing middleware is registered, so the property is never set, whatever
\* Cookie header the request carries.
reqCookies(cookieHeader) == Undefined

\* req.cookies?.auth_token
cookieToken(cookies) ==
  IF cookies = Undefined THEN Undefined ELSE cookies.auth_token

\* JavaScript truthiness of a token value
Truthy(tok) == tok.kind \notin {"undefined", "none"}

\* authenticateToken: status 0 stands for next() with req.user attached.
authenticateToken(authHeader, cookieHeader) ==
  LET fromHeader == headerToken(authHeader)
      token == IF Truthy(fromHeader) THEN fromHeader
               ELSE cookieToken(reqCookies(cookieHeader))
  IN  IF ~Truthy(token)
      THEN [status |-> 401, user |-> Undefined]
      ELSE LET v == jwtVerify(token, JWT_SECRET)
           IN  IF v.err
               THEN [status |-> 403, user |-> Undefined]
               ELSE [status |-> 0, user |-> v.decoded]

\* A role gate that lets every authenticated identity through.
authorizeAnyRole(user, roles) ==
  IF user = Undefined THEN 401 ELSE 0

\* authorize(roles): status 0 stands for next().
authorize(user, roles) ==
  IF user = Undefined THEN 401
  ELSE IF user.role \notin roles THEN 403
  ELSE 0

\* The role list each route passes to authorize().
allowedRoles(route) ==
  CASE route = "getStudents"      -> {"Admin", "Teacher", "Student"}
    [] route = "createNewStudent" -> {"Admin", "Teacher"}
    [] route = "updateStudent"    -> {"Admin", "Teacher"}
    [] route = "deleteStudent"    -> {"Admin", "Teacher"}
    [] route = "getAnalytics"     -> {"Admin", "Teacher"}

(* ----------------------------------------------------------------- login *)

VALID_CREDENTIALS == [username |-> "teacher", password |-> "password123"]

\* { expiresIn: '24h' }, in hours
expiresInHours == 24

\* generateToken(user): the payload signed with JWT_SECRET, not yet expired.
generateToken(user) ==
  [kind |-> "jwt",
   payload |-> [username |-> user.username, role |-> user.role, id |-> user.id],
   key |-> JWT_SECRET, expired |-> FALSE]

\* The token as jwt.verify sees it when presented h hours after it was
\* issued: expired once the clock has reached exp = iat + 24h.
presentedAfter(tok, h) == [tok EXCEPT !.expired = (h >= expiresInHours)]

\* body(field).notEmpty(): a missing field and the empty string both fail.
notEmpty(body, field) == field \in DOMAIN body /\ body[field] # ""

\* req.body.field, undefined when the field is missing
bodyField(body, name) == IF name \in DOMAIN body THEN body[name] ELSE Undefined

\* router.post('/login'): the status and the payload it answers with.
login(body) ==
  IF ~(notEmpty(body, "username") /\ notEmpty(body, "password"))
  THEN [status |-> 400, data |-> Undefined]
  ELSE IF \/ bodyField(body, "username") # VALID_CREDENTIALS.username
          \/ bodyField(body, "password") # VALID_CREDENTIALS.password
  THEN [status |-> 401, data |-> Undefined]
  ELSE [status |-> 200,
        data |-> [token |-> generateToken([username |-> bodyField(body, "username"),
                                           role |-> "Teacher", id |-> 1]),
                  user |-> [username |-> bodyField(body, "username"),
                            role |-> "Teacher"]]]

(* ------------------------------------------------------------ validation *)

Subjects == {"Math", "Science", "English", "History"}

\* isEmail(): the strings of the model that are syntactically e-mail
\* addresses (everything it uses except "not-an-email").
isEmail(s) == s # "not-an-email"

\* email.split("@")[1] on the addresses of the model
emailDomain(s) ==
  CASE s = "spam@tempmail.org" -> "tempmail.org"
    [] OTHER -> "example.com"

disposableEmailDomains == {"tempmail.org", "10minutemail.com"}

Has(obj, key) == key \in DOMAIN obj

\* validateCreateStudent: TRUE when the chain reports no error.
createBodyValid(body) ==
  /\ Has(body, "name")    /\ Len(body.name) >= 2 /\ Len(body.name) <= 100
  /\ Has(body, "email")   /\ isEmail(body.email)
                          /\ emailDomain(normalizeEmail(body.email))
                               \notin disposableEmailDomains
  /\ Has(body, "subject") /\ body.subject \in Subjects
  /\ Has(body, "grade")   /\ body.grade >= 0 /\ body.grade <= 100

\* The body after the sanitizers ran: e-mail normalised, unknown keys kept.
sanitizeBody(body) ==
  [k \in DOMAIN body |-> IF k = "email" THEN normalizeEmail(body[k]) ELSE body[k]]

\* The PUT validators: every field optional, checked when present.
updateBodyValid(body) ==
  /\ Has(body, "name")    => (Len(body.name) >= 2 /\ Len(body.name) <= 100)
  /\ Has(body, "email")   => isEmail(body.email)
  /\ Has(body, "subject") => body.subject \in Subjects
  /\ Has(body, "grade")   => (body.grade >= 0 /\ body.grade <= 100)

\* validateGetStudents
listQueryValid(q) ==
  /\ Has(q, "subject")   => q.subject \in Subjects
  /\ Has(q, "page")      => (q.page >= 1 /\ q.page <= 1000)
  /\ Has(q, "limit")     => (q.limit >= 1 /\ q.limit <= 100)
  /\ Has(q, "sortBy")    => q.sortBy \in {"created_at", "name", "subject", "grade"}
  /\ Has(q, "sortOrder") => q.sortOrder \in {"asc", "desc"}

\* validateGetAnalytics
analyticsQueryValid(q) ==
  /\ Has(q, "limit")   => (q.limit >= 1 /\ q.limit <= 50)
  /\ Has(q, "subject") => q.subject \in Subjects

\* JavaScript numbers as far as the id parameter needs them: NaN, or a
\* decimal value held in tenths.
NaN      == [nan |-> TRUE,  tenths |-> 0]
Num(t)   == [nan |-> FALSE, tenths |-> t]

\* Number(id) on the id strings of the model.
Number(s) ==
  CASE s = "1"   -> Num(10)
    [] s = "2"   -> Num(20)
    [] s = "7"   -> Num(70)
    [] s = "99"  -> Num(990)
    [] s = "0"   -> Num(0)
    [] s = "-1"  -> Num(-10)
    [] s = "1.5" -> Num(15)
    [] OTHER     -> NaN

isNaN(n) == n.nan

(* ---------------------------------------------------------------- state *)

VARIABLES
  students,         \* rows of table students as the connection sees them
  sqlite_sequence,  \* AUTOINCREMENT high-water mark of the table
  transaction,      \* the connection's transaction state and rollback journal
  clock,            \* wall clock (new Date()), in ticks
  faults,           \* statements the environment may still fail
  dbInstance,       \* the module-level dbInstance of database/init.ts
  connections,      \* number of Database objects constructed so far
  workload,         \* which clients are connected (fixed during a run)
  request,          \* per request: what arrived, and req.user once attached
  pc,               \* per request: the await its handler is suspended at
  local,            \* per request: the handler's local variables
  response,         \* per request: status and payload sent (status 0: none yet)
  hist              \* per request: record of what it did (observation only)

dbVars  == <<students, sqlite_sequence, transaction, clock, faults, workload>>
reqVars == <<request, pc, local, response, hist>>
connVars == <<dbInstance, connections>>
vars    == <<students, sqlite_sequence, transaction, clock, faults, workload,
             dbInstance, connections, request, pc, local, response, hist>>

\* A call of new Database() that always makes a fresh connection.
newDatabase(instance, made) ==
  [instance |-> [connection |-> made + 1], made |-> made + 1]

\* getDatabase(): the instance it returns and the number of Database objects
\* constructed after the call.
getDatabase(instance, made) ==
  IF instance = Undefined
  THEN [instance |-> [connection |-> made + 1], made |-> made + 1]
  ELSE [instance |-> instance, made |-> made]

NoTransaction == [active |-> FALSE, students |-> {}, sqlite_sequence |-> 0]

\* The rows of the table as committed: what the rollback journal holds while
\* a transaction is open, the rows themselves otherwise.
committedRows == IF transaction.active THEN transaction.students ELSE students

NoRequest == [route |-> "none"]

NoLocal ==
  [existing |-> Undefined, fields |-> {}, lastID |-> 0, row |-> Undefined,
   err |-> Undefined, pending |-> {}, rows |-> <<>>, total |-> 0,
   average |-> <<>>]

NoResponse == [status |-> 0, data |-> Undefined]

NoHist ==
  [log |-> <<>>, entered |-> FALSE, pred |-> {},
   atStart |-> {}, atBegin |-> {}, atEnd |-> {}, db |-> Undefined,
   committed |-> {}]

(* ------------------------------------------------------------ the errors *)

\* Errors as node-sqlite3 rejects with them (code and message), and the
\* Error objects the handlers throw themselves.
ErrUnique  == [code |-> "SQLITE_CONSTRAINT",
               message |-> "SQLITE_CONSTRAINT: UNIQUE constraint failed: students.email"]
ErrCheck   == [code |-> "SQLITE_CONSTRAINT",
               message |-> "SQLITE_CONSTRAINT: CHECK constraint failed: students"]
ErrBusy    == [code |-> "SQLITE_BUSY",
               message |-> "SQLITE_BUSY: database is locked"]
ErrNested  == [code |-> "SQLITE_ERROR",
               message |-> "SQLITE_ERROR: cannot start a transaction within a transaction"]
ErrNoCommit   == [code |-> "SQLITE_ERROR",
                  message |-> "SQLITE_ERROR: cannot commit - no transaction is active"]
ErrNoRollback == [code |-> "SQLITE_ERROR",
                  message |-> "SQLITE_ERROR: cannot rollback - no transaction is active"]
ErrNoId      == [code |-> "", message |-> "Failed to create student - no ID returned"]
ErrNoUpdate  == [code |-> "", message |-> "No rows were updated"]
ErrNoDelete  == [code |-> "",
                 message |-> "No rows were deleted - student may have been deleted by another process"]

\* String.prototype.includes on the messages above.
includes(message, needle) ==
  CASE needle = "UNIQUE constraint failed: students.email" -> message = ErrUnique.message
    [] needle = "UNIQUE constraint failed"                 -> message = ErrUnique.message
    [] needle = "CHECK constraint failed"                  -> message = ErrCheck.message
    [] needle = "database is locked"                       -> message = ErrBusy.message
    [] OTHER -> FALSE

\* The outer catch of createNewStudent
createErrorStatus(err) ==
  IF \/ err.code = "SQLITE_CONSTRAINT_UNIQUE"
     \/ includes(err.message, "UNIQUE constraint failed: students.email")
  THEN 409
  ELSE IF err.code = "SQLITE_CONSTRAINT_CHECK" THEN 400
  ELSE 500

\* An outer catch that answers every error with the generic 500.
updateErrorStatusGeneric(err) == 500

\* The outer catch of updateStudent
updateErrorStatus(err) ==
  IF \/ err.code = "SQLITE_CONSTRAINT_UNIQUE"
     \/ includes(err.message, "UNIQUE constraint failed")
  THEN 409
  ELSE IF err.code = "SQLITE_CONSTRAINT_CHECK" THEN 400
  ELSE 500

\* The outer catch of deleteStudent
deleteErrorStatus(err) ==
  IF includes(err.message, "database is locked") THEN 503 ELSE 500

\* The outer catch of the handler named.
errorStatus(handler, err) ==
  CASE handler = "create" -> createErrorStatus(err)
    [] handler = "update" -> updateErrorStatus(err)
    [] handler = "delete" -> deleteErrorStatus(err)

(* ------------------------------------------------------- the SQL statements *)

\* What a statement that can meet the file lock may do: run, or fail with
\* SQLITE_BUSY while the environment still has faults to spend.
Outcomes == IF faults > 0 THEN {"run", "locked"} ELSE {"run"}

\* ... WHERE id = ?  with a numeric parameter (a text parameter is converted
\* by the column's INTEGER affinity, which on the id strings of the model is
\* Number()).
selectById(rows, n) ==
  IF \E s \in rows : s.id * 10 = n.tenths
  THEN CHOOSE s \in rows : s.id * 10 = n.tenths
  ELSE Undefined

\* SELECT id FROM students WHERE LOWER(email) = LOWER(?)
selectByEmail(rows, email) ==
  IF \E s \in rows : LOWER(s.email) = LOWER(email)
  THEN CHOOSE s \in rows : LOWER(s.email) = LOWER(email)
  ELSE Undefined

\* SELECT id FROM students WHERE LOWER(email) = LOWER(?) AND id != ?
selectByEmailExcept(rows, email, n) ==
  IF \E s \in rows : LOWER(s.email) = LOWER(email) /\ s.id * 10 # n.tenths
  THEN CHOOSE s \in rows : LOWER(s.email) = LOWER(email) /\ s.id * 10 # n.tenths
  ELSE Undefined

\* An email column declared without UNIQUE: no insert or update is refused.
noUniqueIndex(rows, email, selfId) == FALSE

\* email TEXT NOT NULL UNIQUE: byte-wise equality with another row's e-mail.
uniqueViolation(rows, email, selfId) ==
  \E s \in rows : s.id # selfId /\ s.email = email

\* CHECK(length(name) >= 2), CHECK(grade >= 0 AND grade <= 100)
checkViolation(row) ==
  ~(Len(row.name) >= 2 /\ row.grade >= 0 /\ row.grade <= 100)

(* ------------------------------------------------------ request inputs *)

Req(route, authorization, cookie, id, body, query) ==
  [route |-> route, authorization |-> authorization, cookie |-> cookie,
   id |-> id, body |-> body, query |-> query]

Empty == [k \in {} |-> 0]

EveBody(email) ==
  [name |-> "Eve Adams", email |-> email, subject |-> "Math", grade |-> 77]

\* What each workload's clients send.  Every workload contains the basic
\* requests of a teacher's client, which between them reach every await of
\* every handler.
BasicInputs ==
  { Req("createNewStudent", Bearer(TeacherToken), NoToken, "",
        EveBody("Eve.Adams@Example.com"), Empty),
    Req("updateStudent", Bearer(TeacherToken), NoToken, "1",
        [email |-> "Eve.Adams@Example.com"], Empty),
    Req("deleteStudent", Bearer(TeacherToken), NoToken, "1", Empty, Empty),
    Req("getStudents", Bearer(TeacherToken), NoToken, "", Empty, Empty),
    Req("getAnalytics", Bearer(TeacherToken), NoToken, "", Empty, Empty) }

\* Further requests of a teacher's client.
CoreInputs ==
  { Req("createNewStudent", Bearer(TeacherToken), NoToken, "",
        EveBody("eve.adams@example.com"), Empty),
    Req("updateStudent", Bearer(TeacherToken), NoToken, "1", [grade |-> 60], Empty),
    Req("updateStudent", Bearer(TeacherToken), NoToken, "1", [role |-> "Admin"], Empty),
    Req("updateStudent", Bearer(TeacherToken), NoToken, "99", [role |-> "Admin"], Empty),
    Req("updateStudent", Bearer(TeacherToken), NoToken, "abc", [role |-> "Admin"], Empty),
    Req("deleteStudent", Bearer(TeacherToken), NoToken, "99", Empty, Empty) }

\* The write requests among the basic ones.
WriteInputs ==
  {in \in BasicInputs : in.route \in {"createNewStudent", "updateStudent", "deleteStudent"}}

\* Requests that differ in what they present to the gates, and requests
\* with malformed parameters or bodies.
EdgeInputs ==
     { Req("getStudents", h, NoToken, "", Empty, Empty) :
         h \in { NoHeader, BearerOnly, Bearer(AdminToken), Bearer(StudentToken),
                 Bearer(ExpiredToken), Bearer(TamperedToken), Bearer(MalformedToken) } }
  \cup { Req("getStudents", NoHeader, TeacherToken, "", Empty, Empty),
         Req("getAnalytics", NoHeader, NoToken, "", Empty, Empty),
         Req("getAnalytics", Bearer(StudentToken), NoToken, "", Empty, Empty),
         Req("createNewStudent", Bearer(StudentToken), NoToken, "",
             EveBody("eve.adams@example.com"), Empty),
         Req("updateStudent", Bearer(StudentToken), NoToken, "1", [grade |-> 60], Empty),
         Req("deleteStudent", Bearer(StudentToken), NoToken, "1", Empty, Empty),
         Req("updateStudent", Bearer(TeacherToken), NoToken, "abc", [grade |-> 60], Empty) }
  \cup { Req("createNewStudent", Bearer(TeacherToken), NoToken, "", b, Empty) :
         b \in { EveBody("not-an-email"), EveBody("spam@tempmail.org"),
                 [EveBody("eve.adams@example.com") EXCEPT !.grade = 150] } }
  \cup { Req("deleteStudent", Bearer(TeacherToken), NoToken, i, Empty, Empty) :
         i \in {"0", "-1", "1.5", "abc"} }

\* The bodies sent to POST /auth/login: each field missing, empty, right or
\* wrong.
LoginBodies ==
  LET names == {"teacher", "admin", "password123", ""}
  IN  UNION { [keys -> names] : keys \in SUBSET {"username", "password"} }

\* Hours that pass between a login and the use of its token.
HoursLater == {0, 23, 24, 25}

\* A client that logs in and lists the students with the token it was given,
\* at once or hours later, in the header.
AuthInputs ==
  { Req("getStudents", Bearer(presentedAfter(response[q].data.token, h)),
        NoToken, "", Empty, Empty) :
      q \in {q \in DOMAIN response : /\ request[q].route = "login"
                                      /\ response[q].status = 200},
      h \in HoursLater }
  \cup { Req("getStudents", NoHeader, NoToken, "", Empty, Empty) }

\* A signed token for the student whose identity is id 2.
SecondStudentToken == Jwt("Student", 2, JWT_SECRET, FALSE)

\* List requests with filters, sorting and paging, from each role, next to
\* a delete and a create that change what there is to list.
ListInputs ==
     { Req("getStudents", Bearer(TeacherToken), NoToken, "", Empty, q) :
         q \in { Empty,
                 [sortBy |-> "email"],
                 [sortBy |-> "grade", sortOrder |-> "asc", limit |-> 4, page |-> 2],
                 [limit |-> 4],
                 [limit |-> 1, page |-> 1000],
                 [subject |-> "Math", limit |-> 1, page |-> 2],
                 [search |-> "jo", limit |-> 100] } }
  \cup { Req("getStudents", Bearer(AdminToken), NoToken, "", Empty,
             [limit |-> 2, page |-> 2]),
         Req("getStudents", Bearer(StudentToken), NoToken, "", Empty, Empty),
         Req("getStudents", Bearer(StudentToken), NoToken, "", Empty,
             [subject |-> "Science"]),
         Req("getStudents", Bearer(SecondStudentToken), NoToken, "", Empty,
             [limit |-> 1]),
         Req("deleteStudent", Bearer(TeacherToken), NoToken, "1", Empty, Empty),
         Req("createNewStudent", Bearer(TeacherToken), NoToken, "",
             EveBody("eve.adams@example.com"), Empty) }

\* Analytics requests with and without a subject filter, next to a delete
\* and a create that change the figures.
AnalyticsInputs ==
     { Req("getAnalytics", Bearer(TeacherToken), NoToken, "", Empty, q) :
         q \in { Empty, [subject |-> "Math"], [subject |-> "Science", limit |-> 1],
                 [limit |-> 2] } }
  \cup { Req("deleteStudent", Bearer(TeacherToken), NoToken, "1", Empty, Empty),
         Req("createNewStudent", Bearer(TeacherToken), NoToken, "",
             EveBody("eve.adams@example.com"), Empty) }

\* Updates of one record's e-mail to another record's address, to its own
\* address in another letter case and to a new address; updates of some of
\* the fields, with fields outside the whitelist next to them; and a create
\* and a delete that race with them.
UpdateInputs ==
     { Req("updateStudent", Bearer(TeacherToken), NoToken, "1", b, Empty) :
         b \in { [email |-> "JANE.SMITH@example.com"],
                 [email |-> "John.Doe@Example.com"],
                 [email |-> "Eve.Adams@Example.com"],
                 [grade |-> 60, id |-> 99, created_at |-> 5, role |-> "Admin"] } }
  \cup { Req("updateStudent", Bearer(TeacherToken), NoToken, "2",
             [name |-> "Jane Roe", subject |-> "Math"], Empty),
         Req("createNewStudent", Bearer(TeacherToken), NoToken, "",
             EveBody("Eve.Adams@Example.com"), Empty),
         Req("deleteStudent", Bearer(TeacherToken), NoToken, "1", Empty, Empty) }

Inputs ==
  CASE workload = "core"  -> BasicInputs \cup CoreInputs
    [] workload = "write" -> WriteInputs
    [] workload = "edge"  -> BasicInputs \cup EdgeInputs
    [] workload = "auth"  -> AuthInputs
    [] workload = "list"  -> ListInputs
    [] workload = "analytics" -> AnalyticsInputs
    [] workload = "update" -> UpdateInputs
    [] workload = "readwrite" -> BasicInputs

(* ----------------------------------------------- gates and handler entry *)

\* router.use(authenticateToken) followed by the route's authorize(roles):
\* the status the gates answer with (0: both called next()), the identity
\* attached, and whether the route's handler is invoked.
gates(in) ==
  LET a == authenticateToken(in.authorization, in.cookie)
  IN  IF a.status # 0
      THEN [status |-> a.status, user |-> Undefined, entered |-> FALSE]
      ELSE LET z == authorize(a.user, allowedRoles(in.route))
           IN  [status |-> z, user |-> a.user, entered |-> (z = 0)]

\* The synchronous head of each handler, up to its first await: the
\* validationResult check, the id check, and the statement(s) it then issues.
\* status 0: the handler is now suspended at pc.
handlerEntry(in) ==
  CASE in.route = "createNewStudent" ->
         IF ~createBodyValid(in.body)
         THEN [status |-> 400, pc |-> "done", pending |-> {}]
         ELSE [status |-> 0, pc |-> "create_check", pending |-> {}]
    [] in.route = "updateStudent" ->
         IF ~updateBodyValid(in.body)
         THEN [status |-> 400, pc |-> "done", pending |-> {}]
         ELSE IF isNaN(Number(in.id))
         THEN [status |-> 400, pc |-> "done", pending |-> {}]
         ELSE [status |-> 0, pc |-> "update_get", pending |-> {}]
    [] in.route = "deleteStudent" ->
         IF isNaN(Number(in.id)) \/ Number(in.id).tenths <= 0
         THEN [status |-> 400, pc |-> "done", pending |-> {}]
         ELSE [status |-> 0, pc |-> "delete_get", pending |-> {}]
    [] in.route = "getStudents" ->
         IF ~listQueryValid(in.query)
         THEN [status |-> 400, pc |-> "done", pending |-> {}]
         ELSE [status |-> 0, pc |-> "list", pending |-> {"all", "count"}]
    [] in.route = "getAnalytics" ->
         IF ~analyticsQueryValid(in.query)
         THEN [status |-> 400, pc |-> "done", pending |-> {}]
         ELSE [status |-> 0, pc |-> "analytics",
               pending |-> {"count", "average", "recent"}]

Done(r)     == pc[r] = "done"
InFlight(r) == pc[r] \notin {"idle", "done"}

\* A request arrives and runs through the gates, the validators and the
\* head of its handler.  Requests are numbered in order of arrival.
Receive(r) ==
  /\ pc[r] = "idle"
  /\ \A q \in Requests : q < r => pc[q] # "idle"
  /\ \E in \in Inputs :
       LET g == gates(in)
           h == IF g.entered THEN handlerEntry(in)
                ELSE [status |-> g.status, pc |-> "done", pending |-> {}]
           d == IF h.pc # "done" THEN getDatabase(dbInstance, connections)
                ELSE [instance |-> dbInstance, made |-> connections]
       IN  /\ request' = [request EXCEPT ![r] =
                 [route |-> in.route, authorization |-> in.authorization,
                  cookie |-> in.cookie, id |-> in.id, raw |-> in.body,
                  body |-> sanitizeBody(in.body), query |-> in.query,
                  user |-> g.user]]
           /\ pc' = [pc EXCEPT ![r] = h.pc]
           /\ local' = [local EXCEPT ![r].pending = h.pending]
           /\ response' = [response EXCEPT ![r].status = h.status]
           /\ hist' = [hist EXCEPT ![r] =
                 [log |-> <<>>, entered |-> g.entered,
                  pred |-> {q \in Requests : Done(q)},
                  atStart |-> students, atBegin |-> {},
                  atEnd |-> IF h.pc = "done" THEN students ELSE {},
                  db |-> IF h.pc # "done" THEN d.instance ELSE Undefined,
                  committed |-> IF h.pc \in {"list", "analytics"}
                                THEN {committedRows} ELSE {}]]
           /\ dbInstance' = d.instance
           /\ connections' = d.made
  /\ UNCHANGED dbVars

\* POST /auth/login arrives and is answered; the route is mounted outside
\* the token gate and touches no storage.
Login(r) ==
  /\ pc[r] = "idle"
  /\ \A q \in Requests : q < r => pc[q] # "idle"
  /\ \E b \in LoginBodies :
       /\ request' = [request EXCEPT ![r] =
             [route |-> "login", authorization |-> NoHeader, cookie |-> NoToken,
              id |-> "", raw |-> b, body |-> b, query |-> Empty, user |-> Undefined]]
       /\ response' = [response EXCEPT ![r] = login(b)]
  /\ pc' = [pc EXCEPT ![r] = "done"]
  /\ hist' = [hist EXCEPT ![r] =
        [log |-> <<>>, entered |-> TRUE, pred |-> {q \in Requests : Done(q)},
         atStart |-> students, atBegin |-> {}, atEnd |-> students,
         db |-> Undefined, committed |-> {}]]
  /\ UNCHANGED <<local, connVars, dbVars>>

(* ------------------------------------------------- handler bookkeeping *)

Entry(op, res) == [op |-> op, res |-> res]

\* The handler sends its response (res.status(..).json(..)) and ends.
Finish(r, status, data, entry) ==
  /\ pc' = [pc EXCEPT ![r] = "done"]
  /\ response' = [response EXCEPT ![r] = [status |-> status, data |-> data]]
  /\ local' = [local EXCEPT ![r] = NoLocal]
  /\ hist' = [hist EXCEPT ![r].log = Append(@, entry), ![r].atEnd = students']
  /\ UNCHANGED <<request, connVars>>

\* COMMIT succeeded and the handler sends its success response.  The rows
\* now committed are noted for every list or analytics request in progress.
FinishCommitted(r, status, data) ==
  /\ pc' = [pc EXCEPT ![r] = "done"]
  /\ response' = [response EXCEPT ![r] = [status |-> status, data |-> data]]
  /\ local' = [local EXCEPT ![r] = NoLocal]
  /\ hist' = [q \in Requests |->
               IF q = r
               THEN [hist[q] EXCEPT !.log = Append(@, Entry("COMMIT", "ok")),
                                    !.atEnd = students']
               ELSE IF pc[q] \in {"list", "analytics"}
               THEN [hist[q] EXCEPT !.committed = @ \cup {students'}]
               ELSE hist[q]]
  /\ UNCHANGED <<request, connVars>>

\* The handler goes on to its next await.
Goto(r, next, newLocal, entry) ==
  /\ pc' = [pc EXCEPT ![r] = next]
  /\ local' = [local EXCEPT ![r] = newLocal]
  /\ hist' = [hist EXCEPT ![r].log = Append(@, entry)]
  /\ UNCHANGED <<request, response, connVars>>

\* A statement fails with SQLITE_BUSY: nothing in the database changes.
Locked ==
  /\ faults' = faults - 1
  /\ UNCHANGED <<students, sqlite_sequence, transaction, clock, workload>>

\* A BEGIN TRANSACTION placed inside the inner try: when it fails, the inner
\* catch issues ROLLBACK before the outer catch answers.
BeginInsideTry(r, next, handler) ==
  IF transaction.active
  THEN /\ UNCHANGED dbVars
       /\ Goto(r, CASE handler = "create" -> "create_rollback"
                    [] handler = "update" -> "update_rollback"
                    [] handler = "delete" -> "delete_rollback",
               [local[r] EXCEPT !.err = ErrNested], Entry("BEGIN", "error"))
  ELSE /\ transaction' = [active |-> TRUE, students |-> students,
                          sqlite_sequence |-> sqlite_sequence]
       /\ UNCHANGED <<students, sqlite_sequence, clock, faults, workload>>
       /\ pc' = [pc EXCEPT ![r] = next]
       /\ hist' = [hist EXCEPT ![r].log = Append(@, Entry("BEGIN", "ok")),
                               ![r].atBegin = students]
       /\ UNCHANGED <<request, local, response, connVars>>

\* A BEGIN TRANSACTION outside every try: when it fails, the rejection of
\* the async handler is unhandled and nothing is sent.
BeginUncaught(r, next, handler) ==
  IF transaction.active
  THEN /\ UNCHANGED dbVars
       /\ Goto(r, "rejected", local[r], Entry("BEGIN", "error"))
  ELSE /\ transaction' = [active |-> TRUE, students |-> students,
                          sqlite_sequence |-> sqlite_sequence]
       /\ UNCHANGED <<students, sqlite_sequence, clock, faults, workload>>
       /\ pc' = [pc EXCEPT ![r] = next]
       /\ hist' = [hist EXCEPT ![r].log = Append(@, Entry("BEGIN", "ok")),
                               ![r].atBegin = students]
       /\ UNCHANGED <<request, local, response, connVars>>

\* await db.run("BEGIN TRANSACTION"), outside the inner try: an error goes
\* straight to the outer catch.  BEGIN is deferred and takes no file lock; it
\* fails when the connection already has a transaction open.
Begin(r, next, handler) ==
  IF transaction.active
  THEN /\ UNCHANGED dbVars
       /\ Finish(r, errorStatus(handler, ErrNested), Undefined, Entry("BEGIN", "error"))
  ELSE /\ transaction' = [active |-> TRUE, students |-> students,
                          sqlite_sequence |-> sqlite_sequence]
       /\ UNCHANGED <<students, sqlite_sequence, clock, faults, workload>>
       /\ pc' = [pc EXCEPT ![r] = next]
       /\ hist' = [hist EXCEPT ![r].log = Append(@, Entry("BEGIN", "ok")),
                               ![r].atBegin = students]
       /\ UNCHANGED <<request, local, response, connVars>>

\* A COMMIT placed after the inner try: when it fails, the outer catch
\* answers and no ROLLBACK is issued.
CommitOutsideTry(r, rollbackPc, status, data) ==
  \E o \in Outcomes :
    IF o = "locked"
    THEN /\ Locked
         /\ Finish(r, 500, Undefined, Entry("COMMIT", "locked"))
    ELSE IF ~transaction.active
    THEN /\ UNCHANGED dbVars
         /\ Finish(r, 500, Undefined, Entry("COMMIT", "error"))
    ELSE /\ transaction' = NoTransaction
         /\ UNCHANGED <<students, sqlite_sequence, clock, faults, workload>>
         /\ FinishCommitted(r, status, data)

\* await db.run("COMMIT") inside the inner try, followed by the success
\* response; an error is caught by the inner catch.
Commit(r, rollbackPc, status, data) ==
  \E o \in Outcomes :
    IF o = "locked"
    THEN /\ Locked
         /\ Goto(r, rollbackPc, [local[r] EXCEPT !.err = ErrBusy],
                 Entry("COMMIT", "locked"))
    ELSE IF ~transaction.active
    THEN /\ UNCHANGED dbVars
         /\ Goto(r, rollbackPc, [local[r] EXCEPT !.err = ErrNoCommit],
                 Entry("COMMIT", "error"))
    ELSE /\ transaction' = NoTransaction
         /\ UNCHANGED <<students, sqlite_sequence, clock, faults, workload>>
         /\ FinishCommitted(r, status, data)

\* catch (transactionError) { await db.run("ROLLBACK"); throw transactionError }
\* followed by the outer catch.  When ROLLBACK itself rejects, its error is
\* the one the outer catch sees.
Rollback(r, handler) ==
  IF transaction.active
  THEN /\ students' = transaction.students
       /\ sqlite_sequence' = transaction.sqlite_sequence
       /\ transaction' = NoTransaction
       /\ UNCHANGED <<clock, faults, workload>>
       /\ Finish(r, errorStatus(handler, local[r].err), Undefined, Entry("ROLLBACK", "ok"))
  ELSE /\ UNCHANGED dbVars
       /\ Finish(r, errorStatus(handler, ErrNoRollback), Undefined, Entry("ROLLBACK", "error"))

\* The follow-up SELECT ... WHERE id = ? inside the transaction.
ReadBack(r, n, next, rollbackPc) ==
  \E o \in Outcomes :
    IF o = "locked"
    THEN /\ Locked
         /\ Goto(r, rollbackPc, [local[r] EXCEPT !.err = ErrBusy],
                 Entry("SELECT", "locked"))
    ELSE /\ UNCHANGED dbVars
         /\ Goto(r, next, [local[r] EXCEPT !.row = selectById(students, n)],
                 Entry("SELECT", "ok"))

(* ------------------------------------------------------ createNewStudent *)

\* The advisory duplicate look-up and the 409 it answers with.
CreateCheck(r) ==
  /\ pc[r] = "create_check"
  /\ \E o \in Outcomes :
       IF o = "locked"
       THEN /\ Locked
            /\ Finish(r, createErrorStatus(ErrBusy), Undefined,
                      Entry("SELECT", "locked"))
       ELSE /\ UNCHANGED dbVars
            /\ IF selectByEmail(students, request[r].body.email) # Undefined
               THEN Finish(r, 409, Undefined, Entry("SELECT", "ok"))
               ELSE Goto(r, "create_begin", local[r], Entry("SELECT", "ok"))

CreateBegin(r) ==
  /\ pc[r] = "create_begin"
  /\ Begin(r, "create_insert", "create")

\* INSERT INTO students (name, email, subject, grade, created_at) VALUES ...
\* with email.toLowerCase() and now; then the lastID test.
CreateInsert(r) ==
  /\ pc[r] = "create_insert"
  /\ \E o \in Outcomes :
       LET b   == request[r].body
           row == [id |-> sqlite_sequence + 1, name |-> b.name,
                   email |-> toLowerCase(b.email), subject |-> b.subject,
                   grade |-> b.grade, created_at |-> clock + 1]
       IN  IF o = "locked"
           THEN /\ Locked
                /\ Goto(r, "create_rollback", [local[r] EXCEPT !.err = ErrBusy],
                        Entry("INSERT", "locked"))
           ELSE IF checkViolation(row)
           THEN /\ UNCHANGED dbVars
                /\ Goto(r, "create_rollback", [local[r] EXCEPT !.err = ErrCheck],
                        Entry("INSERT", "error"))
           ELSE IF uniqueViolation(students, row.email, row.id)
           THEN /\ UNCHANGED dbVars
                /\ Goto(r, "create_rollback", [local[r] EXCEPT !.err = ErrUnique],
                        Entry("INSERT", "error"))
           ELSE /\ students' = students \cup {row}
                /\ sqlite_sequence' = row.id
                /\ clock' = clock + 1
                /\ UNCHANGED <<transaction, faults, workload>>
                /\ IF row.id = 0
                   THEN Goto(r, "create_rollback", [local[r] EXCEPT !.err = ErrNoId],
                             Entry("INSERT", "ok"))
                   ELSE Goto(r, "create_read", [local[r] EXCEPT !.lastID = row.id],
                             Entry("INSERT", "ok"))

CreateRead(r) ==
  /\ pc[r] = "create_read"
  /\ ReadBack(r, Num(local[r].lastID * 10), "create_commit", "create_rollback")

CreateCommit(r) ==
  /\ pc[r] = "create_commit"
  /\ Commit(r, "create_rollback", 201, local[r].row)

\* An inner catch that rethrows without issuing ROLLBACK.
CreateRethrow(r) ==
  /\ pc[r] = "create_rollback"
  /\ UNCHANGED dbVars
  /\ Finish(r, createErrorStatus(local[r].err), Undefined, Entry("THROW", "ok"))

CreateRollback(r) ==
  /\ pc[r] = "create_rollback"
  /\ Rollback(r, "create")

(* --------------------------------------------------------- updateStudent *)

allowedFields == {"name", "email", "subject", "grade"}

\* Every provided field taken as an update field, whitelisted or not.
providedFields(updates) == DOMAIN updates

\* Object.keys(updates).filter(field => allowedFields.includes(field) && ...)
updateFields(updates) == {f \in DOMAIN updates : f \in allowedFields}

\* The row after an UPDATE that writes every whitelisted column, the ones the
\* request did not send with an empty value.
updatedRowEveryColumn(s, updates, fields) ==
  [k \in DOMAIN s |->
     IF k \in fields
     THEN IF k = "email" THEN toLowerCase(updates[k]) ELSE updates[k]
     ELSE IF k = "grade" THEN 0
     ELSE IF k = "subject" THEN "Math"
     ELSE s[k]]

\* The row after UPDATE students SET <field = ?, ...>, the e-mail lower-cased.
updatedRow(s, updates, fields) ==
  [k \in DOMAIN s |->
     IF k \in fields
     THEN IF k = "email" THEN toLowerCase(updates[k]) ELSE updates[k]
     ELSE s[k]]

\* The existence look-up, the 404, the field whitelist and its 400, and the
\* test that decides whether the duplicate look-up is made.
UpdateGet(r) ==
  /\ pc[r] = "update_get"
  /\ \E o \in Outcomes :
       LET updates  == request[r].body
           existing == selectById(students, Number(request[r].id))
           fields   == updateFields(updates)
       IN  IF o = "locked"
           THEN /\ Locked
                /\ Finish(r, updateErrorStatus(ErrBusy), Undefined,
                          Entry("SELECT", "locked"))
           ELSE /\ UNCHANGED dbVars
                /\ IF existing = Undefined
                   THEN Finish(r, 404, Undefined, Entry("SELECT", "ok"))
                   ELSE IF fields = {}
                   THEN Finish(r, 400, Undefined, Entry("SELECT", "ok"))
                   ELSE IF /\ Has(updates, "email")
                           /\ toLowerCase(updates.email) # toLowerCase(existing.email)
                   THEN Goto(r, "update_dup",
                             [local[r] EXCEPT !.existing = existing, !.fields = fields],
                             Entry("SELECT", "ok"))
                   ELSE Goto(r, "update_begin",
                             [local[r] EXCEPT !.existing = existing, !.fields = fields],
                             Entry("SELECT", "ok"))

\* SELECT id FROM students WHERE LOWER(email) = LOWER(?) AND id != ?
UpdateDup(r) ==
  /\ pc[r] = "update_dup"
  /\ \E o \in Outcomes :
       IF o = "locked"
       THEN /\ Locked
            /\ Finish(r, updateErrorStatus(ErrBusy), Undefined,
                      Entry("SELECT", "locked"))
       ELSE /\ UNCHANGED dbVars
            /\ IF selectByEmailExcept(students, request[r].body.email,
                                      Number(request[r].id)) # Undefined
               THEN Finish(r, 409, Undefined, Entry("SELECT", "ok"))
               ELSE Goto(r, "update_begin", local[r], Entry("SELECT", "ok"))

UpdateBegin(r) ==
  /\ pc[r] = "update_begin"
  /\ Begin(r, "update_run", "update")

\* UPDATE students SET ... WHERE id = ?  and the changes === 0 test.
UpdateRun(r) ==
  /\ pc[r] = "update_run"
  /\ \E o \in Outcomes :
       LET n       == Number(request[r].id)
           targets == {s \in students : s.id * 10 = n.tenths}
           after   == {updatedRow(s, request[r].body, local[r].fields) : s \in targets}
       IN  IF o = "locked"
           THEN /\ Locked
                /\ Goto(r, "update_rollback", [local[r] EXCEPT !.err = ErrBusy],
                        Entry("UPDATE", "locked"))
           ELSE IF \E s \in after : checkViolation(s)
           THEN /\ UNCHANGED dbVars
                /\ Goto(r, "update_rollback", [local[r] EXCEPT !.err = ErrCheck],
                        Entry("UPDATE", "error"))
           ELSE IF \E s \in after : uniqueViolation(students, s.email, s.id)
           THEN /\ UNCHANGED dbVars
                /\ Goto(r, "update_rollback", [local[r] EXCEPT !.err = ErrUnique],
                        Entry("UPDATE", "error"))
           ELSE /\ students' = (students \ targets) \cup after
                /\ UNCHANGED <<sqlite_sequence, transaction, clock, faults, workload>>
                /\ IF Cardinality(targets) = 0
                   THEN Goto(r, "update_rollback", [local[r] EXCEPT !.err = ErrNoUpdate],
                             Entry("UPDATE", "ok"))
                   ELSE Goto(r, "update_read", local[r], Entry("UPDATE", "ok"))

UpdateRead(r) ==
  /\ pc[r] = "update_read"
  /\ ReadBack(r, Number(request[r].id), "update_commit", "update_rollback")

UpdateCommit(r) ==
  /\ pc[r] = "update_commit"
  /\ Commit(r, "update_rollback", 200, local[r].row)

UpdateRollback(r) ==
  /\ pc[r] = "update_rollback"
  /\ Rollback(r, "update")

(* --------------------------------------------------------- deleteStudent *)

\* A delete that looks the row up but goes on whether or not it exists.
DeleteGetUnchecked(r) ==
  /\ pc[r] = "delete_get"
  /\ \E o \in Outcomes :
       IF o = "locked"
       THEN /\ Locked
            /\ Finish(r, deleteErrorStatus(ErrBusy), Undefined,
                      Entry("SELECT", "locked"))
       ELSE /\ UNCHANGED dbVars
            /\ Goto(r, "delete_begin",
                    [local[r] EXCEPT !.existing =
                       selectById(students, Number(request[r].id))],
                    Entry("SELECT", "ok"))

\* The existence look-up (which also keeps the row for the response) and
\* the 404.
DeleteGet(r) ==
  /\ pc[r] = "delete_get"
  /\ \E o \in Outcomes :
       LET existing == selectById(students, Number(request[r].id))
       IN  IF o = "locked"
           THEN /\ Locked
                /\ Finish(r, deleteErrorStatus(ErrBusy), Undefined,
                          Entry("SELECT", "locked"))
           ELSE /\ UNCHANGED dbVars
                /\ IF existing = Undefined
                   THEN Finish(r, 404, Undefined, Entry("SELECT", "ok"))
                   ELSE Goto(r, "delete_begin", [local[r] EXCEPT !.existing = existing],
                             Entry("SELECT", "ok"))

DeleteBegin(r) ==
  /\ pc[r] = "delete_begin"
  /\ Begin(r, "delete_run", "delete")

\* A DELETE whose result is not tested for changes === 0.
DeleteRunUntested(r) ==
  /\ pc[r] = "delete_run"
  /\ \E o \in Outcomes :
       LET n       == Number(request[r].id)
           targets == {s \in students : s.id * 10 = n.tenths}
       IN  IF o = "locked"
           THEN /\ Locked
                /\ Goto(r, "delete_rollback", [local[r] EXCEPT !.err = ErrBusy],
                        Entry("DELETE", "locked"))
           ELSE /\ students' = students \ targets
                /\ UNCHANGED <<sqlite_sequence, transaction, clock, faults, workload>>
                /\ Goto(r, "delete_commit", local[r], Entry("DELETE", "ok"))

\* DELETE FROM students WHERE id = ?  and the changes === 0 test.
DeleteRun(r) ==
  /\ pc[r] = "delete_run"
  /\ \E o \in Outcomes :
       LET n       == Number(request[r].id)
           targets == {s \in students : s.id * 10 = n.tenths}
       IN  IF o = "locked"
           THEN /\ Locked
                /\ Goto(r, "delete_rollback", [local[r] EXCEPT !.err = ErrBusy],
                        Entry("DELETE", "locked"))
           ELSE /\ students' = students \ targets
                /\ UNCHANGED <<sqlite_sequence, transaction, clock, faults, workload>>
                /\ IF Cardinality(targets) = 0
                   THEN Goto(r, "delete_rollback", [local[r] EXCEPT !.err = ErrNoDelete],
                             Entry("DELETE", "ok"))
                   ELSE Goto(r, "delete_commit", local[r], Entry("DELETE", "ok"))

DeleteCommit(r) ==
  /\ pc[r] = "delete_commit"
  /\ Commit(r, "delete_rollback", 200,
            [deletedId |-> local[r].existing.id,
             deletedStudent |-> [name |-> local[r].existing.name,
                                 email |-> local[r].existing.email,
                                 subject |-> local[r].existing.subject]])

DeleteRollback(r) ==
  /\ pc[r] = "delete_rollback"
  /\ Rollback(r, "delete")

(* ----------------------------------------------------------- getStudents *)

\* Position of a string in byte order among the names / subjects of the model.
stringRank(str) ==
  CASE str = "Alice Brown"    -> 1
    [] str = "Bob Johnson"    -> 2
    [] str = "Charlie Wilson" -> 3
    [] str = "Diana Davis"    -> 4
    [] str = "English"        -> 5
    [] str = "Eve Adams"      -> 6
    [] str = "History"        -> 7
    [] str = "Jane Smith"     -> 8
    [] str = "John Doe"       -> 9
    [] str = "Math"           -> 10
    [] str = "Science"        -> 11
    [] OTHER                  -> 0

\* value LIKE '%term%' (ASCII case-insensitive) for the search terms of the
\* model.
like(value, term) ==
  CASE term = "jo"   -> value \in {"John Doe", "Bob Johnson"}
    [] term = "math" -> value = "Math"
    [] OTHER         -> FALSE

Param(q, key, default) == IF Has(q, key) THEN q[key] ELSE default

\* A WHERE clause without the restriction on role Student.
listWhereAnyRole(s, user, q) ==
  /\ Has(q, "subject") => s.subject = q.subject
  /\ Has(q, "search")  => (like(s.name, q.search) \/ like(s.subject, q.search))

\* The WHERE clause shared by the page query and the count query.
listWhere(s, user, q) ==
  /\ user.role = "Student" => s.id = user.id
  /\ Has(q, "subject") => s.subject = q.subject
  /\ Has(q, "search")  => (like(s.name, q.search) \/ like(s.subject, q.search))

sortKey(s, field) ==
  CASE field = "name"    -> stringRank(s.name)
    [] field = "subject" -> stringRank(s.subject)
    [] field = "grade"   -> s.grade
    [] OTHER             -> s.created_at

\* Row a comes before row b under ORDER BY <field> <dir>; rows with equal
\* keys come in rowid order.
precedes(a, b, field, dir) ==
  \/ IF dir = "ASC" THEN sortKey(a, field) < sortKey(b, field)
                    ELSE sortKey(a, field) > sortKey(b, field)
  \/ sortKey(a, field) = sortKey(b, field) /\ a.id < b.id

\* ORDER BY <field> <dir>: each row paired with the number of rows that
\* precede it; the i-th row is the one that i - 1 rows precede.
orderBy(rows, field, dir) ==
  LET ranked == {<<Cardinality({b \in rows : precedes(b, a, field, dir)}), a>> :
                   a \in rows}
  IN  [i \in 1..Cardinality(rows) |-> (CHOOSE p \in ranked : p[1] = i - 1)[2]]

Min(a, b) == IF a < b THEN a ELSE b

\* LIMIT ? OFFSET ?
limitOffset(sorted, limit, offset) ==
  IF offset >= Len(sorted) THEN <<>>
  ELSE SubSeq(sorted, offset + 1, Min(offset + limit, Len(sorted)))

\* SELECT id, name, subject, grade, created_at FROM students ...
listColumns(s) ==
  [id |-> s.id, name |-> s.name, subject |-> s.subject, grade |-> s.grade,
   created_at |-> s.created_at]

\* The page query as getStudents builds it.
listPage(rows, user, q) ==
  LET sortBy    == Param(q, "sortBy", "created_at")
      safeBy    == IF sortBy \in {"created_at", "name", "subject", "grade"}
                   THEN sortBy ELSE "created_at"
      safeOrder == IF Param(q, "sortOrder", "desc") = "asc" THEN "ASC" ELSE "DESC"
      limit     == Param(q, "limit", 20)
      offset    == (Param(q, "page", 1) - 1) * limit
      selected  == {listColumns(s) : s \in {t \in rows : listWhere(t, user, q)}}
  IN  limitOffset(orderBy(selected, safeBy, safeOrder), limit, offset)

\* SELECT COUNT(*) as total FROM students ...
listCount(rows, user, q) == Cardinality({s \in rows : listWhere(s, user, q)})

\* Rounding the page count down instead of up.
floorDiv(a, b) == a \div b

\* Math.ceil(a / b) for a >= 0, b > 0
ceilDiv(a, b) == (a + b - 1) \div b

\* The success payload of getStudents.
listPayload(page, totalItems, q) ==
  LET limit      == Param(q, "limit", 20)
      current    == Param(q, "page", 1)
      totalPages == ceilDiv(totalItems, limit)
  IN  [rows |-> page,
       pagination |-> [currentPage |-> current, totalPages |-> totalPages,
                       totalItems |-> totalItems, itemsPerPage |-> limit,
                       hasNext |-> current < totalPages, hasPrev |-> current > 1]]

\* One of the two statements of Promise.all([db.all(..), db.get(..)])
\* completes; when both have, the handler responds.  A rejection of either
\* one rejects Promise.all and the catch answers 500.
ListRead(r, stmt, newLocal) ==
  /\ pc[r] = "list"
  /\ stmt \in local[r].pending
  /\ \E o \in Outcomes :
       IF o = "locked"
       THEN /\ Locked
            /\ Finish(r, 500, Undefined, Entry("SELECT", "locked"))
       ELSE /\ UNCHANGED dbVars
            /\ IF newLocal.pending = {}
               THEN Finish(r, 200,
                           listPayload(newLocal.rows, newLocal.total, request[r].query),
                           Entry("SELECT", "ok"))
               ELSE Goto(r, "list", newLocal, Entry("SELECT", "ok"))

ListAll(r) ==
  ListRead(r, "all",
           [local[r] EXCEPT !.pending = @ \ {"all"},
                            !.rows = listPage(students, request[r].user, request[r].query)])

ListCount(r) ==
  ListRead(r, "count",
           [local[r] EXCEPT !.pending = @ \ {"count"},
                            !.total = listCount(students, request[r].user, request[r].query)])

(* ---------------------------------------------------------- getAnalytics *)

RECURSIVE sumGrades(_)
sumGrades(rows) ==
  IF rows = {} THEN 0
  ELSE LET s == CHOOSE x \in rows : TRUE
       IN  s.grade + sumGrades(rows \ {s})

\* An average cut off after two decimals instead of rounded.
truncatedAverage(rows) == (100 * sumGrades(rows)) \div Cardinality(rows)

\* Math.round(AVG(grade) * 100) / 100, held in hundredths.
roundedAverage(rows) ==
  (200 * sumGrades(rows) + Cardinality(rows)) \div (2 * Cardinality(rows))

analyticsWhere(s, q) == Has(q, "subject") => s.subject = q.subject

\* SELECT subject, AVG(grade) ... GROUP BY subject, folded into the
\* averageGradeBySubject object.
averageGradeBySubject(rows, q) ==
  LET kept == {s \in rows : analyticsWhere(s, q)}
  IN  [subj \in {s.subject : s \in kept} |->
         roundedAverage({s \in kept : s.subject = subj})]

\* SELECT ... ORDER BY created_at DESC LIMIT ?
recentAdditions(rows, q) ==
  limitOffset(orderBy({s \in rows : analyticsWhere(s, q)}, "created_at", "DESC"),
              Param(q, "limit", 10), 0)

\* One of the three statements of Promise.all completes; when all have, the
\* handler responds.
AnalyticsRead(r, stmt, newLocal) ==
  /\ pc[r] = "analytics"
  /\ stmt \in local[r].pending
  /\ \E o \in Outcomes :
       IF o = "locked"
       THEN /\ Locked
            /\ Finish(r, 500, Undefined, Entry("SELECT", "locked"))
       ELSE /\ UNCHANGED dbVars
            /\ IF newLocal.pending = {}
               THEN Finish(r, 200,
                           [totalStudents |-> newLocal.total,
                            averageGradeBySubject |-> newLocal.average,
                            recentAdditions |-> newLocal.rows],
                           Entry("SELECT", "ok"))
               ELSE Goto(r, "analytics", newLocal, Entry("SELECT", "ok"))

AnalyticsCount(r) ==
  AnalyticsRead(r, "count",
    [local[r] EXCEPT !.pending = @ \ {"count"},
       !.total = Cardinality({s \in students : analyticsWhere(s, request[r].query)})])

AnalyticsAverage(r) ==
  AnalyticsRead(r, "average",
    [local[r] EXCEPT !.pending = @ \ {"average"},
       !.average = averageGradeBySubject(students, request[r].query)])

AnalyticsRecent(r) ==
  AnalyticsRead(r, "recent",
    [local[r] EXCEPT !.pending = @ \ {"recent"},
       !.rows = recentAdditions(students, request[r].query)])

(* ------------------------------------------------------ the specification *)

\* The server after initializeDatabase() on an empty file: the table holds
\* the six sample rows and no request has arrived.
Start(load, lockFaults) ==
  /\ students = sampleStudents
  /\ sqlite_sequence = 6
  /\ transaction = NoTransaction
  /\ clock = 0
  /\ faults = lockFaults
  /\ workload = load
  /\ dbInstance = getDatabase(Undefined, 0).instance
  /\ connections = getDatabase(Undefined, 0).made
  /\ request = [r \in Requests |-> NoRequest]
  /\ pc = [r \in Requests |-> "idle"]
  /\ local = [r \in Requests |-> NoLocal]
  /\ response = [r \in Requests |-> NoResponse]
  /\ hist = [r \in Requests |-> NoHist]

\* A teacher's clients, no other process touching the database file.
Init == Start("core", 0)

\* The same clients while another process may hold the file lock.
InitFaults == Start("write", MaxFaults)

\* All clients, well-behaved or not.
InitEdge == Start("edge", 0)

\* Clients that log in first.
InitAuth == Start("auth", 0)

\* Clients that list while records come and go.
InitList == Start("list", 0)

\* Clients that read the analytics while records come and go.
InitAnalytics == Start("analytics", 0)

\* The steps of the write routes.
NextWrite ==
  \E r \in Requests :
    \/ Receive(r)
    \/ CreateCheck(r) \/ CreateBegin(r) \/ CreateInsert(r)
    \/ CreateRead(r) \/ CreateCommit(r) \/ CreateRollback(r)
    \/ UpdateGet(r) \/ UpdateDup(r) \/ UpdateBegin(r) \/ UpdateRun(r)
    \/ UpdateRead(r) \/ UpdateCommit(r) \/ UpdateRollback(r)
    \/ DeleteGet(r) \/ DeleteBegin(r) \/ DeleteRun(r)
    \/ DeleteCommit(r) \/ DeleteRollback(r)

\* The steps of the read routes.
NextRead ==
  \E r \in Requests :
    \/ ListAll(r) \/ ListCount(r)
    \/ AnalyticsCount(r) \/ AnalyticsAverage(r) \/ AnalyticsRecent(r)

Next == NextWrite \/ NextRead

Spec == Init /\ [][Next]_vars

\* The write routes under lock contention.
FaultSpec == InitFaults /\ [][NextWrite]_vars

EdgeSpec == InitEdge /\ [][Next]_vars

\* Login and the use of the issued token on the list route.
NextAuth ==
  \E r \in Requests :
    \/ Login(r) \/ Receive(r) \/ ListAll(r) \/ ListCount(r)

AuthSpec == InitAuth /\ [][NextAuth]_vars

\* The list route next to creates and deletes.
NextList ==
  \E r \in Requests :
    \/ Receive(r) \/ ListAll(r) \/ ListCount(r)
    \/ CreateCheck(r) \/ CreateBegin(r) \/ CreateInsert(r)
    \/ CreateRead(r) \/ CreateCommit(r) \/ CreateRollback(r)
    \/ DeleteGet(r) \/ DeleteBegin(r) \/ DeleteRun(r)
    \/ DeleteCommit(r) \/ DeleteRollback(r)

ListSpec == InitList /\ [][NextList]_vars

\* The analytics route next to creates and deletes.
NextAnalytics ==
  \E r \in Requests :
    \/ Receive(r)
    \/ AnalyticsCount(r) \/ AnalyticsAverage(r) \/ AnalyticsRecent(r)
    \/ CreateCheck(r) \/ CreateBegin(r) \/ CreateInsert(r)
    \/ CreateRead(r) \/ CreateCommit(r) \/ CreateRollback(r)
    \/ DeleteGet(r) \/ DeleteBegin(r) \/ DeleteRun(r)
    \/ DeleteCommit(r) \/ DeleteRollback(r)

AnalyticsSpec == InitAnalytics /\ [][NextAnalytics]_vars

\* Clients that edit records while others are created and deleted.
InitUpdate == Start("update", 0)

\* The write routes under the editing clients.
UpdateSpec == InitUpdate /\ [][NextWrite]_vars

\* A teacher's clients reading and writing while another process may hold
\* the file lock.
InitReadWrite == Start("readwrite", MaxFaults)

\* Every route under lock contention.
ReadWriteSpec == InitReadWrite /\ [][Next]_vars

\* The continuation of request r's handler after the statement it awaits
\* has settled.
Handle(r) ==
  \/ CreateCheck(r) \/ CreateBegin(r) \/ CreateInsert(r)
  \/ CreateRead(r) \/ CreateCommit(r) \/ CreateRollback(r)
  \/ UpdateGet(r) \/ UpdateDup(r) \/ UpdateBegin(r) \/ UpdateRun(r)
  \/ UpdateRead(r) \/ UpdateCommit(r) \/ UpdateRollback(r)
  \/ DeleteGet(r) \/ DeleteBegin(r) \/ DeleteRun(r)
  \/ DeleteCommit(r) \/ DeleteRollback(r)
  \/ ListAll(r) \/ ListCount(r)
  \/ AnalyticsCount(r) \/ AnalyticsAverage(r) \/ AnalyticsRecent(r)

\* Every route under lock contention, with the scheduling of the runtime:
\* the connection settles every statement it was given (the callback of
\* Database.run / get / all is always called) and the event loop then runs
\* the handler's continuation.
LiveSpec ==
  /\ InitReadWrite /\ [][Next]_vars
  /\ \A r \in Requests : WF_vars(Handle(r))

(* ----------------------------------------------------------- properties *)

Arrived(r) == pc[r] # "idle"

\* The handler of request r issued statement op (with whatever result).
Issued(r, op) == \E i \in DOMAIN hist[r].log : hist[r].log[i].op = op

\* The handler of request r issued statement op with result res.
Got(r, op, res) == \E i \in DOMAIN hist[r].log : hist[r].log[i] = Entry(op, res)

LastEntry(r) == hist[r].log[Len(hist[r].log)]

\* Request a was answered before request b arrived.
Before(a, b) == a \in hist[b].pred

\* The requests in rs are the only ones that have arrived.
Only(rs) == \A q \in Requests \ rs : ~Arrived(q)

\* No other request was in progress at any time while r was.
Alone(r) == \A q \in Requests \ {r} : ~Arrived(q) \/ Before(q, r)

\* The spellings of one address that differ only in letter case.
EveSpellings ==
  {"Eve.Adams@Example.com", "EVE.ADAMS@EXAMPLE.COM", "eve.adams@example.com"}

\* The rows of a table that hold the address, in whatever spelling.
Holding(rows, spellings) == {s \in rows : s.email \in spellings}

\* C1: in every reachable state no two stored student records have e-mails
\* that are equal when compared case-insensitively.
C1_EmailUniqueIgnoringCase ==
  \A s, t \in students : LOWER(s.email) = LOWER(t.email) => s = t

\* C1 (its case happens): a write that passed the advisory look-up was
\* refused by the storage constraint and answered 409, while the address it
\* wanted is held by another record.
C1_Witness ==
  \E r \in Requests :
    /\ Done(r) /\ response[r].status = 409
    /\ Got(r, "INSERT", "error") \/ Got(r, "UPDATE", "error")
    /\ Holding(students, EveSpellings) # {}

\* C2: for every valid create payload whose e-mail is not yet used, a create
\* request followed by a list request yields a list result that contains
\* exactly one record with the matching lower-case e-mail.
C2_CreateThenListHasEmail ==
  \A c, l \in Requests :
    ( /\ request[c].route = "createNewStudent" /\ hist[c].entered
      /\ createBodyValid(request[c].raw)
      /\ Holding(hist[c].atStart, EveSpellings) = {}
      /\ request[c].raw.email \in EveSpellings
      /\ request[l].route = "getStudents" /\ hist[l].entered
      /\ Done(c) /\ Done(l) /\ Before(c, l) /\ Only({c, l}) )
    => LET rows == response[l].data.rows
       IN  /\ response[l].status = 200
           /\ Cardinality({i \in DOMAIN rows :
                 /\ Has(rows[i], "email")
                 /\ rows[i].email = "eve.adams@example.com"}) = 1

\* C3: when two create requests are issued one after the other with e-mails
\* that differ only in letter case (the address being unused before), the
\* first is answered 201, the second 409, and exactly one record holds the
\* address.
C3_SecondSpellingConflicts ==
  \A a, b \in Requests :
    ( /\ request[a].route = "createNewStudent" /\ hist[a].entered
      /\ request[b].route = "createNewStudent" /\ hist[b].entered
      /\ request[a].raw.email \in EveSpellings
      /\ request[b].raw.email \in EveSpellings
      /\ request[a].raw.email # request[b].raw.email
      /\ Holding(hist[a].atStart, EveSpellings) = {}
      /\ Done(a) /\ Done(b) /\ Before(a, b) /\ Only({a, b}) )
    => /\ response[a].status = 201
       /\ response[b].status = 409
       /\ Cardinality(Holding(students, EveSpellings)) = 1

\* C3 (its case happens): the second of two such creates has been answered.
C3_Witness ==
  \E a, b \in Requests :
    /\ request[a].route = "createNewStudent" /\ request[b].route = "createNewStudent"
    /\ request[a].raw.email = "Eve.Adams@Example.com"
    /\ request[b].raw.email = "eve.adams@example.com"
    /\ Done(a) /\ Done(b) /\ Before(a, b)
    /\ response[a].status = 201 /\ response[b].status = 409

\* C4: when two create requests with the same e-mail run concurrently and
\* both pass the advisory duplicate look-up, exactly one creates the record
\* and the other is answered 409, in every interleaving of their statements.
C4_RaceLoserGets409 ==
  \A a, b \in Requests :
    ( /\ a # b
      /\ request[a].route = "createNewStudent" /\ request[b].route = "createNewStudent"
      /\ request[a].body.email = request[b].body.email
      /\ Done(a) /\ Done(b) /\ Only({a, b})
      /\ Issued(a, "BEGIN") /\ Issued(b, "BEGIN") )
    => \/ response[a].status = 201 /\ response[b].status = 409
       \/ response[a].status = 409 /\ response[b].status = 201

\* C5: a write handler in which a step between BEGIN TRANSACTION and COMMIT
\* failed (the statement, the read-back, the id / affected-rows test, or
\* COMMIT) issued ROLLBACK as its last statement before responding, answered
\* with a non-success status, and left the stored records as they were when
\* its transaction began; when no other request overlapped with it, as they
\* were when it arrived.
C5_FailureRollsBack ==
  \A r \in Requests :
    ( /\ Done(r) /\ Got(r, "BEGIN", "ok")
      /\ LastEntry(r) # Entry("COMMIT", "ok") )
    => /\ LastEntry(r) = Entry("ROLLBACK", "ok")
       /\ response[r].status >= 400
       /\ hist[r].atEnd = hist[r].atBegin
       /\ Alone(r) => hist[r].atEnd = hist[r].atStart

\* C5 (its case happens): a handler whose statement had changed the table
\* met a failing COMMIT, and has answered.
C5_Witness ==
  \E r \in Requests :
    /\ Done(r) /\ Got(r, "COMMIT", "locked")
    /\ response[r].status >= 400
    /\ students = hist[r].atBegin

\* The body of update request r names fields, none of them whitelisted.
OnlyUnlisted(r) ==
  /\ request[r].route = "updateStudent" /\ hist[r].entered
  /\ DOMAIN request[r].raw # {}
  /\ DOMAIN request[r].raw \cap {"name", "email", "subject", "grade"} = {}

\* C6 as stated: every update request whose body touches only fields outside
\* the whitelist is answered 400 and issues no BEGIN and no UPDATE.
C6_UnlistedIs400 ==
  \A r \in Requests :
    (OnlyUnlisted(r) /\ Done(r))
    => /\ response[r].status = 400
       /\ ~Issued(r, "BEGIN") /\ ~Issued(r, "UPDATE")

\* C6 amended: every update request whose body touches only fields outside
\* the whitelist issues no BEGIN and no UPDATE and leaves the stored records
\* as its look-up found them; it is answered 400 when its id is not a number
\* or names a stored record, and 404 when its id names no stored record.
C6_UnlistedIs400Or404 ==
  \A r \in Requests :
    (OnlyUnlisted(r) /\ Done(r))
    => /\ ~Issued(r, "BEGIN") /\ ~Issued(r, "UPDATE")
       /\ Alone(r) => hist[r].atEnd = hist[r].atStart
       /\ response[r].status =
            IF request[r].id \notin {"1", "2", "7", "99"} THEN 400
            ELSE IF \E s \in hist[r].atEnd : s.id * 10 = Number(request[r].id).tenths
            THEN 400 ELSE 404

\* C6 (its case happens): an update of a stored record naming only an
\* unlisted field has been answered 400, and one of an absent id 404.
C6_Witness ==
  \E r, q \in Requests :
    /\ OnlyUnlisted(r) /\ Done(r) /\ request[r].id = "1"
    /\ response[r].status = 400 /\ Got(r, "SELECT", "ok")
    /\ OnlyUnlisted(q) /\ Done(q) /\ request[q].id = "99"
    /\ response[q].status = 404

\* The id of request r names a record of the table rows.
Names(r, rows) == \E s \in rows : s.id * 10 = Number(request[r].id).tenths

\* C7: a delete request for an id that matches no stored record is answered
\* 404 and leaves the store unchanged; deleting the same existing id twice
\* in sequence succeeds the first time and is answered 404 the second time.
C7_DeleteAbsentIs404 ==
  /\ \A r \in Requests :
       ( /\ request[r].route = "deleteStudent" /\ hist[r].entered
         /\ request[r].id \in {"1", "2", "7", "99"}
         /\ Done(r) /\ Alone(r) /\ ~Names(r, hist[r].atStart) )
       => /\ response[r].status = 404
          /\ hist[r].atEnd = hist[r].atStart
          /\ ~Issued(r, "BEGIN") /\ ~Issued(r, "DELETE")
  /\ \A a, b \in Requests :
       ( /\ request[a].route = "deleteStudent" /\ hist[a].entered
         /\ request[b].route = "deleteStudent" /\ hist[b].entered
         /\ request[a].id = request[b].id
         /\ Done(a) /\ Done(b) /\ Before(a, b) /\ Only({a, b})
         /\ Names(a, hist[a].atStart) )
       => /\ response[a].status = 200
          /\ ~Names(a, hist[a].atEnd)
          /\ response[b].status = 404
          /\ hist[b].atEnd = hist[b].atStart

\* C7 (its case happens): the same stored id deleted twice in sequence, and
\* both requests answered.
C7_Witness ==
  \E a, b \in Requests :
    /\ request[a].route = "deleteStudent" /\ request[b].route = "deleteStudent"
    /\ request[a].id = "1" /\ request[b].id = "1"
    /\ Done(a) /\ Done(b) /\ Before(a, b)
    /\ response[a].status = 200 /\ response[b].status = 404

\* The id strings of the model that are positive integers.
PositiveIntegerIds == {"1", "2", "7", "99"}

\* C8: the delete handler answers 400 and touches no storage for every id
\* path parameter that is not a positive integer (zero, negative,
\* non-numeric, numeric but non-integer); only positive-integer ids reach
\* the existence look-up.
C8_DeleteIdMustBePositiveInteger ==
  \A r \in Requests :
    ( /\ request[r].route = "deleteStudent" /\ hist[r].entered
      /\ request[r].id \notin PositiveIntegerIds )
    => /\ Done(r) /\ response[r].status = 400
       /\ hist[r].log = <<>>

\* The roles each route admits, as the interface states them.
Admitted(route) ==
  IF route = "getStudents" THEN {"Admin", "Teacher", "Student"}
  ELSE {"Admin", "Teacher"}

Presented(r) ==
  IF Truthy(headerToken(request[r].authorization))
  THEN headerToken(request[r].authorization)
  ELSE request[r].cookie

\* C10: the authentication gate answers 401 exactly when no token is
\* presented, 403 when the token presented is malformed, tampered or
\* expired, and only for a token that verifies against the secret and is
\* unexpired does it attach the decoded identity and pass the request on; it
\* never passes a request on without attaching an identity.
C10_GateAnswers ==
  \A r \in Requests :
    Arrived(r) =>
      LET tok  == Presented(r)
          good == tok.kind = "jwt" /\ tok.key = JWT_SECRET /\ ~tok.expired
      IN  /\ response[r].status = 401 <=> ~Truthy(tok)
          /\ (Truthy(tok) /\ ~good) => response[r].status = 403
          /\ request[r].user # Undefined <=> good
          /\ good => request[r].user = tok.payload
          /\ hist[r].entered => request[r].user # Undefined

\* The login request r carried exactly the fixed credential pair.
FixedPair(r) ==
  /\ DOMAIN request[r].raw = {"username", "password"}
  /\ request[r].raw.username = "teacher"
  /\ request[r].raw.password = "password123"

\* C11: login issues a token only for the one fixed credential pair, and that
\* token decodes to role Teacher and id 1 and verifies until 24 hours have
\* passed; every other credential pair, empty and missing fields included,
\* is answered 401 and given no token.
C11_LoginOnlyFixedPair ==
  \A r \in Requests :
    (request[r].route = "login" /\ Done(r)) =>
      IF FixedPair(r)
      THEN /\ response[r].status = 200
           /\ LET tok == response[r].data.token
              IN  /\ jwtVerify(tok, JWT_SECRET).decoded.role = "Teacher"
                  /\ jwtVerify(tok, JWT_SECRET).decoded.id = 1
                  /\ ~jwtVerify(presentedAfter(tok, 23), JWT_SECRET).err
                  /\ jwtVerify(presentedAfter(tok, 24), JWT_SECRET).err
      ELSE /\ response[r].status = 401
           /\ response[r].data = Undefined

\* The token verifies against the secret and is unexpired.
Valid(tok) == tok.kind = "jwt" /\ tok.key = JWT_SECRET /\ ~tok.expired

\* C12: the gate takes the token from the Authorization header when one is
\* present and otherwise from the auth_token cookie: a request carrying a
\* valid token only in the cookie is authenticated with that token's identity
\* and goes on to the role gate and the handler.
C12_CookieFallback ==
  \A r \in Requests :
    (Arrived(r) /\ request[r].route # "login") =>
      /\ (Truthy(headerToken(request[r].authorization))
            /\ Valid(headerToken(request[r].authorization))) =>
           request[r].user = headerToken(request[r].authorization).payload
      /\ (~request[r].authorization.present /\ Valid(request[r].cookie)) =>
           /\ request[r].user = request[r].cookie.payload
           /\ response[r].status \notin {401, 403}
           /\ hist[r].entered

\* The rows of a sequence come in non-increasing created_at order.
NewestFirst(rows) ==
  \A i, j \in DOMAIN rows : i < j => rows[i].created_at >= rows[j].created_at

\* C13: a list request whose sort field is outside the whitelist
\* {created_at, name, subject, grade} does not fail: it is answered
\* successfully, the rows ordered by created_at descending.
C13_UnlistedSortFallsBack ==
  \A r \in Requests :
    ( /\ request[r].route = "getStudents" /\ hist[r].entered /\ Done(r)
      /\ Has(request[r].query, "sortBy")
      /\ request[r].query.sortBy \notin {"created_at", "name", "subject", "grade"} )
    => /\ response[r].status = 200
       /\ NewestFirst(response[r].data.rows)

\* The stored rows a list request of this identity with this query is about:
\* the role restriction, the subject filter and the search filter.
Matching(rows, user, q) ==
  {s \in rows :
     /\ user.role = "Student" => s.id = user.id
     /\ "subject" \in DOMAIN q => s.subject = q.subject
     /\ "search" \in DOMAIN q =>
          (q.search = "jo" /\ s.name \in {"John Doe", "Bob Johnson"})}

\* C14: in every successful list response totalPages is
\* ceil(totalItems / pageSize), hasNext holds exactly when
\* currentPage < totalPages, hasPrev exactly when currentPage > 1, and (no
\* write overlapping the request) totalItems is the number of stored records
\* matching the filter of the page query, whatever the page and page size;
\* the page holds matching rows only, at most pageSize of them.
C14_Pagination ==
  \A r \in Requests :
    ( /\ request[r].route = "getStudents" /\ hist[r].entered
      /\ Done(r) /\ response[r].status = 200 )
    => LET q     == request[r].query
           size  == IF "limit" \in DOMAIN q THEN q.limit ELSE 20
           page  == IF "page" \in DOMAIN q THEN q.page ELSE 1
           p     == response[r].data.pagination
           rows  == response[r].data.rows
           match == Matching(hist[r].atStart, request[r].user, q)
       IN  /\ p.itemsPerPage = size /\ p.currentPage = page
           /\ p.totalPages * size >= p.totalItems
           /\ p.totalPages >= 0
           /\ p.totalPages > 0 => (p.totalPages - 1) * size < p.totalItems
           /\ p.hasNext <=> page < p.totalPages
           /\ p.hasPrev <=> page > 1
           /\ Len(rows) <= size
           /\ Alone(r) =>
                /\ p.totalItems = Cardinality(match)
                /\ \A i \in DOMAIN rows : \E s \in match : s.id = rows[i].id
                /\ page = 1 => Len(rows) = IF size < p.totalItems
                                           THEN size ELSE p.totalItems

\* C14 (its case happens): a successful response for a middle page, with a
\* page before it and one after it, and one for a page past the end.
C14_Witness ==
  \E r, q \in Requests :
    /\ Done(r) /\ request[r].route = "getStudents" /\ response[r].status = 200
    /\ response[r].data.pagination.hasNext /\ response[r].data.pagination.hasPrev
    /\ Done(q) /\ request[q].route = "getStudents" /\ response[q].status = 200
    /\ response[q].data.pagination.currentPage = 1000
    /\ response[q].data.rows = <<>>

\* C15: every handler maps a storage failure carrying the lock signature
\* ("database is locked") to 503, one carrying the unique-constraint
\* signature to 409, and an unrecognized failure to 500.
C15_ErrorSignatures ==
  \A r \in Requests :
    Done(r) =>
      /\ (\E i \in DOMAIN hist[r].log : hist[r].log[i].res = "locked")
           => response[r].status = 503
      /\ (Got(r, "INSERT", "error") \/ Got(r, "UPDATE", "error"))
           => response[r].status = 409
      /\ Got(r, "BEGIN", "error") => response[r].status = 500

C17_AnalyticsFigures ==
  \A r \in Requests :
    ( /\ request[r].route = "getAnalytics" /\ hist[r].entered
      /\ Done(r) /\ Alone(r) )
    => LET q     == request[r].query
           kept  == {s \in hist[r].atStart :
                       "subject" \in DOMAIN q => s.subject = q.subject}
           size  == IF "limit" \in DOMAIN q THEN q.limit ELSE 10
           d     == response[r].data
       IN  /\ response[r].status = 200
           /\ d.totalStudents = Cardinality(kept)
           /\ DOMAIN d.averageGradeBySubject = {s.subject : s \in kept}
           /\ \A subj \in DOMAIN d.averageGradeBySubject :
                LET g == {s \in kept : s.subject = subj}
                    n == Cardinality(g)
                    v == d.averageGradeBySubject[subj]
                IN  /\ 2 * n * v - 200 * sumGrades(g) > -n
                    /\ 2 * n * v - 200 * sumGrades(g) <= n
           /\ \A i \in DOMAIN d.recentAdditions : d.recentAdditions[i] \in kept
           /\ Len(d.recentAdditions) =
                IF size < Cardinality(kept) THEN size ELSE Cardinality(kept)
           /\ NewestFirst(d.recentAdditions)
           /\ (q = Empty /\ hist[r].atStart = sampleStudents) =>
                /\ d.totalStudents = 6
                /\ d.averageGradeBySubject["Math"] = 9000

\* C17 (its case happens): analytics answered on the seeded rows, and
\* analytics filtered to Math answered after a Math record was added, the
\* mean then needing rounding (257 / 3).
C17_Witness ==
  \E r, q \in Requests :
    /\ Done(r) /\ request[r].route = "getAnalytics" /\ response[r].status = 200
    /\ Alone(r) /\ request[r].query = [subject |-> "Math"]
    /\ response[r].data.totalStudents = 3
    /\ response[r].data.averageGradeBySubject["Math"] = 8567
    /\ Done(q) /\ request[q].route = "createNewStudent" /\ response[q].status = 201

\* C18: across any number and order of getDatabase calls, from
\* initialization and from any handler, at most one connection is ever
\* constructed and every call returns that same instance.
C18_OneConnection ==
  /\ connections <= 1
  /\ \A r \in Requests :
       hist[r].db # Undefined => hist[r].db = dbInstance
  /\ \A a, b \in Requests :
       (hist[a].db # Undefined /\ hist[b].db # Undefined) => hist[a].db = hist[b].db

\* C18 (its case happens): after initialization, handlers of two requests
\* have each called getDatabase.
C18_Witness ==
  \E a, b \in Requests :
    /\ a # b /\ connections = 1
    /\ hist[a].db # Undefined /\ hist[b].db # Undefined
    /\ request[a].route # request[b].route

\* Requests a and b were in progress at the same time.
Overlap(a, b) == a # b /\ Arrived(a) /\ Arrived(b) /\ ~Before(a, b) /\ ~Before(b, a)

\* C19: write handlers queue on the shared connection: when a create and an
\* update or delete of another, stored record overlap in time, each
\* completes with the response it has in either serial order of the two
\* (201 for the create, 200 for the update or delete), and neither fails
\* because the other's transaction is open when it issues BEGIN TRANSACTION.
C19_WritesQueue ==
  \A a, b \in Requests :
    ( /\ request[a].route = "createNewStudent" /\ hist[a].entered
      /\ request[b].route \in {"updateStudent", "deleteStudent"} /\ hist[b].entered
      /\ request[b].id = "1"
      /\ request[b].route = "updateStudent" => DOMAIN request[b].raw = {"grade"}
      /\ Overlap(a, b) /\ Only({a, b}) /\ Done(a) /\ Done(b) )
    => /\ ~Got(a, "BEGIN", "error") /\ ~Got(b, "BEGIN", "error")
       /\ response[a].status = 201
       /\ response[b].status = 200

\* C20: an update or delete whose target record was deleted by another
\* request between its existence look-up and its own transaction affects
\* zero rows, rolls back and is answered 500, never with success; hence of
\* two delete requests for the same id at most one is answered with success.
C20_ZeroRowsIsFailure ==
  /\ \A r \in Requests :
       ( /\ request[r].route \in {"updateStudent", "deleteStudent"}
         /\ Done(r) /\ Got(r, "BEGIN", "ok")
         /\ ~Names(r, hist[r].atBegin) )
       => /\ LastEntry(r) = Entry("ROLLBACK", "ok")
          /\ response[r].status = 500
          /\ hist[r].atEnd = hist[r].atBegin
  /\ \A a, b \in Requests :
       ( /\ a # b
         /\ request[a].route = "deleteStudent" /\ request[b].route = "deleteStudent"
         /\ request[a].id = request[b].id /\ Done(a) /\ Done(b) )
       => ~(response[a].status = 200 /\ response[b].status = 200)

\* C20 (its case happens): a delete found its record, another request
\* deleted it, and the first then deleted zero rows and has been answered.
C20_Witness ==
  \E a, b \in Requests :
    /\ request[a].route = "deleteStudent" /\ request[b].route = "deleteStudent"
    /\ request[a].id = "1" /\ request[b].id = "1"
    /\ Done(a) /\ Done(b) /\ Overlap(a, b)
    /\ response[a].status = 200
    /\ Got(b, "DELETE", "ok") /\ LastEntry(b) = Entry("ROLLBACK", "ok")
    /\ response[b].status = 500

\* The handler of updateStudent ran for request r and has answered.
Updated(r) ==
  Done(r) /\ request[r].route = "updateStudent" /\ hist[r].entered
          /\ hist[r].log # <<>>

\* The rows of a table that the id of request r names.
Target(r, rows) == {s \in rows : s.id * 10 = Number(request[r].id).tenths}

\* Another row than the one request r names holds, in some letter case, the
\* e-mail address the request sent.
HeldByOther(r, rows) ==
  \E s \in rows \ Target(r, rows) : LOWER(s.email) = LOWER(request[r].raw.email)

\* The row request r names holds, in some letter case, the address it sent.
HeldByTarget(r, rows) ==
  \E s \in Target(r, rows) : LOWER(s.email) = LOWER(request[r].raw.email)

\* C21: an update that sets email to a value equal, ignoring case, to the
\* email of a different record fails with 409 and changes nothing, whether
\* the other record is found by the look-up before the transaction or by the
\* unique index inside it; an update that sets email to the record's own
\* current email in any letter case is not treated as a conflict, succeeds,
\* and stores the email in lowercase.
C21_UpdateEmailConflict ==
  \A r \in Requests :
    (Updated(r) /\ Has(request[r].raw, "email")) =>
      /\ (HeldByOther(r, hist[r].atStart) /\ Target(r, hist[r].atEnd) # {}) =>
            /\ response[r].status = 409
            /\ ~Issued(r, "BEGIN") /\ ~Issued(r, "UPDATE")
            /\ Alone(r) => hist[r].atEnd = hist[r].atStart
      /\ (Got(r, "UPDATE", "error") /\ HeldByOther(r, hist[r].atBegin)) =>
            /\ response[r].status = 409
            /\ hist[r].atEnd = hist[r].atBegin
      /\ HeldByTarget(r, hist[r].atStart) =>
            /\ response[r].status # 409
            /\ Alone(r) => response[r].status = 200
      /\ response[r].status = 200 =>
            /\ Target(r, hist[r].atEnd) # {}
            /\ \A s \in Target(r, hist[r].atEnd) :
                  /\ s.email = AsciiLower(request[r].raw.email)
                  /\ response[r].data.email = s.email
            /\ ~HeldByOther(r, hist[r].atEnd)

\* Record 1 was sent Jane Smith's address in capitals and answered 409, then
\* its own address with capitals and answered 200, and holds it in lowercase.
C21_Witness ==
  /\ Updated(1) /\ request[1].id = "1"
  /\ request[1].raw = [email |-> "JANE.SMITH@example.com"]
  /\ response[1].status = 409
  /\ Updated(2) /\ request[2].id = "1" /\ Before(1, 2)
  /\ request[2].raw = [email |-> "John.Doe@Example.com"]
  /\ response[2].status = 200
  /\ students = sampleStudents
  /\ \E s \in students : s.id = 1 /\ s.email = "john.doe@example.com"

\* The whitelisted fields that the body request r sent contains.
Sent(r) == DOMAIN request[r].raw \cap {"name", "email", "subject", "grade"}

\* Row t is row s with nothing changed but the whitelisted fields request r
\* sent, which hold the values sent (the e-mail in lowercase).
OnlySentFieldsChanged(r, s, t) ==
  /\ DOMAIN t = DOMAIN s
  /\ t.id = s.id /\ t.created_at = s.created_at
  /\ \A k \in DOMAIN s \ Sent(r) : t[k] = s[k]
  /\ \A k \in Sent(r) :
        t[k] = IF k = "email" THEN AsciiLower(request[r].raw[k]) ELSE request[r].raw[k]

\* Table after is table before with request r's update applied to the row
\* its id names and to no other.
OnlyTargetChanged(r, before, after) ==
  /\ after \ Target(r, after) = before \ Target(r, before)
  /\ Cardinality(Target(r, before)) = 1
  /\ Cardinality(Target(r, after)) = 1
  /\ \A s \in Target(r, before) : \A t \in Target(r, after) :
        OnlySentFieldsChanged(r, s, t)

\* C22: a successful update changes only the whitelisted fields present in
\* the request body, and only on the record with the given id: that record's
\* id and created_at, its whitelisted fields absent from the body, and every
\* field of every other record are unchanged (between the handler's BEGIN and
\* its response; and between arrival and response when no other request is
\* in progress).
C22_UpdateFrame ==
  \A r \in Requests :
    (Updated(r) /\ response[r].status = 200) =>
      /\ Got(r, "UPDATE", "ok") /\ Got(r, "COMMIT", "ok")
      /\ OnlyTargetChanged(r, hist[r].atBegin, hist[r].atEnd)
      /\ Alone(r) => OnlyTargetChanged(r, hist[r].atStart, hist[r].atEnd)

\* Record 1 was sent a grade together with an id, a created_at and a role,
\* was answered 200, and differs from the seeded row in its grade alone.
C22_Witness ==
  /\ Updated(1) /\ request[1].id = "1" /\ Only({1})
  /\ request[1].raw = [grade |-> 60, id |-> 99, created_at |-> 5, role |-> "Admin"]
  /\ response[1].status = 200
  /\ students = (sampleStudents \ Target(1, sampleStudents))
                  \cup { [id |-> 1, name |-> "John Doe", email |-> "john.doe@example.com",
                          subject |-> "Math", grade |-> 60, created_at |-> 0] }

\* Request r is inside its transactional block: its BEGIN TRANSACTION
\* succeeded and neither its COMMIT nor its ROLLBACK has succeeded since.
InBlock(r) ==
  /\ Got(r, "BEGIN", "ok")
  /\ ~Got(r, "COMMIT", "ok") /\ ~Got(r, "ROLLBACK", "ok")

\* In this step the handler of request r issues statement op.
Issues(r, op) ==
  /\ Len(hist'[r].log) = Len(hist[r].log) + 1
  /\ hist'[r].log[Len(hist'[r].log)].op = op

\* C23: under any interleaving of concurrent requests on the shared
\* connection, a ROLLBACK issued by one request never undoes a mutation made
\* by a different request: a handler issues ROLLBACK only if its own BEGIN
\* TRANSACTION succeeded (and the ROLLBACK restores the table of that BEGIN),
\* a handler mutates the store only between its own successful BEGIN and its
\* own COMMIT/ROLLBACK, and at most one handler is inside its transactional
\* block at a time, which is the one whose transaction the connection holds.
C23_RollbackIsOwn ==
  /\ [](/\ Cardinality({r \in Requests : InBlock(r)}) <= 1
        /\ transaction.active <=> (\E r \in Requests : InBlock(r))
        /\ \A r \in Requests :
             InBlock(r) => transaction.students = hist[r].atBegin)
  /\ [][\A r \in Requests :
          /\ Issues(r, "ROLLBACK") =>
                /\ InBlock(r)
                /\ students' = hist[r].atBegin
                /\ \A q \in Requests \ {r} : ~InBlock(q)
          /\ (Issues(r, "INSERT") \/ Issues(r, "UPDATE") \/ Issues(r, "DELETE")) =>
                InBlock(r)
          /\ (students' # students \/ sqlite_sequence' # sqlite_sequence) =>
                \E q \in Requests : InBlock(q) /\ hist'[q].log # hist[q].log
      ]_vars

\* One request has rolled its INSERT back after a failed statement while the
\* other, whose BEGIN was refused during that transaction, was answered
\* without issuing ROLLBACK; the table is the seeded one.
C23_Witness ==
  /\ \E r \in Requests :
       /\ Done(r) /\ Got(r, "INSERT", "ok") /\ Got(r, "ROLLBACK", "ok")
       /\ \E q \in Requests \ {r} :
            /\ Done(q) /\ Got(q, "BEGIN", "error") /\ ~Issued(q, "ROLLBACK")
            /\ ~Before(q, r) /\ ~Before(r, q)
  /\ students = sampleStudents

\* The positions in request r's log at which its transaction was ended: a
\* COMMIT or a ROLLBACK that succeeded.
Endings(r) ==
  {i \in DOMAIN hist[r].log :
     hist[r].log[i] \in {Entry("COMMIT", "ok"), Entry("ROLLBACK", "ok")}}

\* The positions in request r's log at which it opened a transaction.
Beginnings(r) ==
  {i \in DOMAIN hist[r].log : hist[r].log[i] = Entry("BEGIN", "ok")}

WriteRoutes == {"createNewStudent", "updateStudent", "deleteStudent"}

Read(r, route) ==
  Done(r) /\ request[r].route = route /\ hist[r].entered
          /\ response[r].status = 200

\* The elements of a sequence.
Range(seq) == {seq[i] : i \in DOMAIN seq}

\* C25: a list or analytics response never reflects uncommitted data: every
\* row it returns was a row of the committed table at some point during the
\* request, and every value it returns (total, count, average of a subject)
\* is the value over the committed table at some point during the request,
\* even when the read is issued on the shared connection while another
\* request's write transaction is open and is later rolled back.
C25_ReadsCommittedOnly ==
  \A r \in Requests :
    /\ Read(r, "getStudents") =>
          LET d == response[r].data
              u == request[r].user
              q == request[r].query
          IN  /\ \A row \in Range(d.rows) :
                    \E T \in hist[r].committed : row \in {listColumns(s) : s \in T}
              /\ \E T \in hist[r].committed :
                    d.pagination.totalItems = listCount(T, u, q)
    /\ Read(r, "getAnalytics") =>
          LET d == response[r].data
              q == request[r].query
          IN  /\ \A row \in Range(d.recentAdditions) :
                    \E T \in hist[r].committed : row \in T
              /\ \E T \in hist[r].committed :
                    d.totalStudents = Cardinality({s \in T : analyticsWhere(s, q)})
              /\ \A subj \in DOMAIN d.averageGradeBySubject :
                    \E T \in hist[r].committed :
                      /\ subj \in DOMAIN averageGradeBySubject(T, q)
                      /\ d.averageGradeBySubject[subj] = averageGradeBySubject(T, q)[subj]

\* A list response holds the row of Eve Adams although the create that
\* inserted it was rolled back: no committed table ever held it.
PhantomRowReturned ==
  \E r \in Requests : \E w \in Requests \ {r} :
    /\ Read(r, "getStudents")
    /\ \E row \in Range(response[r].data.rows) : row.name = "Eve Adams"
    /\ Done(w) /\ request[w].route = "createNewStudent"
    /\ Got(w, "INSERT", "ok") /\ Got(w, "ROLLBACK", "ok")
    /\ students = sampleStudents

\* The awaits of the handlers: the positions at which a handler is suspended
\* on a storage statement and has a continuation.
Awaits ==
  { "create_check", "create_begin", "create_insert", "create_read",
    "create_commit", "create_rollback",
    "update_get", "update_dup", "update_begin", "update_run", "update_read",
    "update_commit", "update_rollback",
    "delete_get", "delete_begin", "delete_run", "delete_commit", "delete_rollback",
    "list", "analytics" }

====
